---- MODULE Spec2Model ----
(***************************************************************************)
(* The Event subsystem of internal/subsystem/event.go: NewEvent, Start's   *)
(* run loop, RegisterListener and the notifyListeners goroutines, with the *)
(* listeners map, the notifyLock and the two bus channels as state.        *)
(***************************************************************************)
EXTENDS Integers, Sequences, FiniteSets, TLC

\* ------------------------------------------------------------------ bounds
\* listener records ever created by RegisterListener
MaxListeners == 2
\* notifyListeners goroutines ever spawned
MaxTasks == 2
\* largest counter of a pre-loaded listener record (SpecSeeded, SpecLoaded)
MaxCounter == 2
\* listener records pre-loaded under one event name (SpecLoaded only)
MaxLoaded == 3

\* ------------------------------------------------------------------ inputs
Names == {"x", "y"}
DataValues == {1, 2}
Callbacks == {"cb1"}

\* A topic is the string cut at its colons: the tokens between, and the
\* colons themselves as tokens.
Topic2(a, b) == <<a, ":", b>>
Topic4(src) == <<"event", ":", "emit", ":", "_", ":", src>>
Topics ==
    { <<"event">>,
      Topic2("event", "bogus"),
      Topic2("event", "on"),
      <<"event", ":", "emit", ":", "g">>,
      Topic4("g"), Topic4("j"), Topic4("x") }

\* message.EventMessage{Name, Data} and message.OnEventMessage{Name, Callback}
EventMessage(n, d) == [type |-> "EventMessage", Name |-> n, Data |-> d, Callback |-> "none"]
OnEventMessage(n, cb) == [type |-> "OnEventMessage", Name |-> n, Data |-> 0, Callback |-> cb]
Payloads ==
    { EventMessage(n, d) : n \in Names, d \in DataValues }
    \cup { OnEventMessage(n, cb) : n \in Names, cb \in Callbacks }

\* servicebus.Message: Topic() and Data(). Both subscription channels are
\* rendezvous points: the bus offers any message on eventChannel and a
\* signal on quitChannel whenever the run loop selects.
Messages == [topic : Topics, data : Payloads]

\* ------------------------------------------------------------------ state
VARIABLES
    event,          \* result of NewEvent: "unconstructed", "nil" or "ok"
    err,            \* error returned by NewEvent: "nil", "quit" or "event"
    running,        \* Event.running
    loopPc,         \* run loop: "notstarted", "select", "register", "exited"
    shutdownCalls,  \* number of times Event.shutdown was called
    quitsReceived,  \* number of signals the run loop took from quitChannel
    listeners,      \* Event.listeners: event name -> sequence of listener ids
    mapWriting,     \* an assignment into Event.listeners is in progress
    notifyLock,     \* Event.notifyLock: 0 when free, else the holder
    heap,           \* the eventListener records, by id
    reg,            \* the RegisterListener call of each caller
    tasks,          \* the notifyListeners goroutines, in spawn order
    calls,          \* the callback goroutines launched by each task
    crashed,        \* "no", or what ended the process (a panic, a fatal error)
    returned,       \* history: ids whose RegisterListener call has returned
    nextCycle,      \* history: first cycle for its name started after return
    nextEmit        \* history: first task spawned for its name after its on message

vars == <<event, err, running, loopPc, shutdownCalls, quitsReceived, listeners,
          mapWriting, notifyLock, heap, reg, tasks, calls, crashed, returned,
          nextCycle, nextEmit>>

\* holders of the lock other than tasks (tasks hold it under their index)
LoopId == -1
AppId == -2
Callers == {LoopId, AppId}

TaskIds == 1..MaxTasks
ListenerIds == 1..MaxListeners

IdleReg == [pc |-> "idle", name |-> "x", l |-> 0]

\* ------------------------------------------------------------------ helpers
\* strings.Split(topic, ":")
RECURSIVE Split(_)
Split(s) ==
    IF s = <<>> THEN <<"">>
    ELSE IF Head(s) = ":" THEN <<"">> \o Split(Tail(s))
    ELSE LET rest == Split(Tail(s))
         IN  <<Head(s) \o Head(rest)>> \o Tail(rest)

\* e.listeners[eventName]: the zero value (nil) for an absent key
IsNil(m, n) == n \notin DOMAIN m
Lookup(m, n) == IF n \in DOMAIN m THEN m[n] ELSE <<>>

\* faulty variant: the assignment drops the other keys of the map
MapStoreAlone(m, n, s) == [k \in {n} |-> s]

\* e.listeners[eventName] = s
MapStore(m, n, s) == [k \in DOMAIN m \cup {n} |-> IF k = n THEN s ELSE m[k]]

\* faulty variant: the new listener is put in front
PrependListener(s, l) == <<l>> \o s

\* faulty variant: the new listener is appended twice
AppendListenerTwice(s, l) == Append(Append(s, l), l)

\* append(e.listeners[eventName], thisListener)
AppendListener(s, l) == Append(s, l)

\* thisListener := &eventListener{callback: callback, counter: 0, delete: false}
\* (history fields: the event name it is registered for, the caller that
\* registered it, the cycle whose decrement brought its counter to zero, and
\* its rank among the records ever appended to the map, 0 until appended)
NewListener(cb, n, c) ==
    [callback |-> cb, counter |-> 0, delete |-> FALSE,
     name |-> n, by |-> c, zeroedBy |-> 0, order |-> 0]

\* faulty variant: the rebuilt slice lists the unmarked listeners last to first
RECURSIVE KeepUnmarkedReversed(_, _)
KeepUnmarkedReversed(s, h) ==
    IF s = <<>> THEN <<>>
    ELSE IF ~h[Head(s)].delete
         THEN KeepUnmarkedReversed(Tail(s), h) \o <<Head(s)>>
         ELSE KeepUnmarkedReversed(Tail(s), h)

\* faulty variant: the rebuilt slice keeps the marked listeners too
KeepAll(s, h) == s

\* the rebuilt slice: the listeners of the snapshot that are not marked
RECURSIVE KeepUnmarked(_, _)
KeepUnmarked(s, h) ==
    IF s = <<>> THEN <<>>
    ELSE IF ~h[Head(s)].delete
         THEN <<Head(s)>> \o KeepUnmarked(Tail(s), h)
         ELSE KeepUnmarked(Tail(s), h)

Range(s) == { s[i] : i \in DOMAIN s }

\* ------------------------------------------------------------------ Init
Init ==
    /\ event = "unconstructed"
    /\ err = "nil"
    /\ running = FALSE
    /\ loopPc = "notstarted"
    /\ shutdownCalls = 0
    /\ quitsReceived = 0
    /\ listeners = <<>>
    /\ mapWriting = FALSE
    /\ notifyLock = 0
    /\ heap = <<>>
    /\ reg = [c \in Callers |-> IdleReg]
    /\ tasks = <<>>
    /\ calls = <<>>
    /\ crashed = "no"
    /\ returned = {}
    /\ nextCycle = [l \in ListenerIds |-> 0]
    /\ nextEmit = [l \in ListenerIds |-> 0]

Alive == event = "ok" /\ crashed = "no"

\* ------------------------------------------------------------------ NewEvent
\* faulty variant: the failed "event" subscription is reported but the Event is
\* returned all the same
NewEventResultKeepsEvent(quitOk, eventOk) ==
    IF ~quitOk THEN [event |-> "nil", err |-> "quit"]
    ELSE IF ~eventOk THEN [event |-> "ok", err |-> "event"]
    ELSE [event |-> "ok", err |-> "nil"]

\* The Event value NewEvent returns, given whether bus.Subscribe("quit") and
\* bus.Subscribe("event") succeeded.
NewEventResult(quitOk, eventOk) ==
    IF ~quitOk THEN [event |-> "nil", err |-> "quit"]
    ELSE IF ~eventOk THEN [event |-> "nil", err |-> "event"]
    ELSE [event |-> "ok", err |-> "nil"]

NewEvent(quitOk, eventOk) ==
    /\ event = "unconstructed"
    /\ event' = NewEventResult(quitOk, eventOk).event
    /\ err' = NewEventResult(quitOk, eventOk).err
    /\ UNCHANGED <<running, loopPc, shutdownCalls, quitsReceived, listeners,
                   mapWriting, notifyLock, heap, reg, tasks, calls, crashed,
                   returned, nextCycle, nextEmit>>

\* ------------------------------------------------------------------ RegisterListener
\* Lines 66-70: the call creates its record, then waits for the lock.
RegisterCall(c, n, cb) ==
    /\ Cardinality({ l \in DOMAIN heap : heap[l].by \in Callers }) < MaxListeners
    /\ reg[c].pc = "idle"
    /\ heap' = Append(heap, NewListener(cb, n, c))
    /\ reg' = [reg EXCEPT ![c] = [pc |-> "lock", name |-> n, l |-> Len(heap) + 1]]

\* faulty variant: Lock returns at once, whoever holds the lock
LockIsFreeAlways == TRUE

\* Lines 72 and 149: e.notifyLock.Lock() returns only when no one holds the lock.
LockIsFree == notifyLock = 0

\* Line 72
RegisterLock(c) ==
    /\ Alive
    /\ reg[c].pc = "lock"
    /\ LockIsFree
    /\ notifyLock' = c
    /\ reg' = [reg EXCEPT ![c].pc = "append"]
    /\ UNCHANGED <<event, err, running, loopPc, shutdownCalls, quitsReceived,
                   listeners, mapWriting, heap, tasks, calls, crashed,
                   returned, nextCycle, nextEmit>>

\* Line 74, first half: the appended slice is built and the map assignment begins.
RegisterAppend(c) ==
    /\ Alive
    /\ reg[c].pc = "append"
    /\ mapWriting' = TRUE
    /\ reg' = [reg EXCEPT ![c].pc = "store"]
    /\ UNCHANGED <<event, err, running, loopPc, shutdownCalls, quitsReceived,
                   listeners, notifyLock, heap, tasks, calls, crashed,
                   returned, nextCycle, nextEmit>>

\* (history) the rank of the next record appended to the map
NextOrder(h) == 1 + Cardinality({ l \in DOMAIN h : h[l].order > 0 })

\* Line 74, second half: the map holds the appended slice.
RegisterStore(c) ==
    /\ Alive
    /\ reg[c].pc = "store"
    /\ listeners' = MapStore(listeners, reg[c].name,
                             AppendListener(Lookup(listeners, reg[c].name), reg[c].l))
    /\ heap' = [heap EXCEPT ![reg[c].l].order = NextOrder(heap)]
    /\ mapWriting' = FALSE
    /\ reg' = [reg EXCEPT ![c].pc = "unlock"]
    /\ UNCHANGED <<event, err, running, loopPc, shutdownCalls, quitsReceived,
                   notifyLock, tasks, calls, crashed, returned, nextCycle,
                   nextEmit>>

\* Lines 75-76: unlock and return; in the run loop, back to the select.
RegisterUnlock(c) ==
    /\ Alive
    /\ reg[c].pc = "unlock"
    /\ notifyLock' = 0
    /\ reg' = [reg EXCEPT ![c] = IdleReg]
    /\ returned' = returned \cup {reg[c].l}
    /\ loopPc' = IF c = LoopId THEN "select" ELSE loopPc
    /\ UNCHANGED <<event, err, running, shutdownCalls, quitsReceived,
                   listeners, mapWriting, heap, tasks, calls, crashed,
                   nextCycle, nextEmit>>

\* Embedding code calls the exported RegisterListener from its own goroutine.
AppRegister(n, cb) ==
    /\ Alive
    /\ RegisterCall(AppId, n, cb)
    /\ UNCHANGED <<event, err, running, loopPc, shutdownCalls, quitsReceived,
                   listeners, mapWriting, notifyLock, tasks, calls, crashed,
                   returned, nextCycle, nextEmit>>

\* ------------------------------------------------------------------ notifyListeners
\* (history field gone: the listeners whose expiring cycle had finished its
\* cleanup when this cycle read the map)
NewTask(n, d) ==
    [pc |-> "spawned", name |-> n, data |-> d, snap |-> <<>>, i |-> 1,
     itemsToDelete |-> FALSE, newListeners |-> <<>>, gone |-> {}]

\* the cycles whose cleanup phase (lines 169-184) is over
CleanedUp(t) == tasks[t].pc \in {"unlock", "done"}
Gone == { l \in DOMAIN heap : heap[l].zeroedBy # 0 /\ CleanedUp(heap[l].zeroedBy) }

\* Lines 142-146: the goroutine reads the map entry, without the lock, and
\* returns when it is nil.
NotifyRead(t) ==
    /\ Alive
    /\ t \in DOMAIN tasks
    /\ tasks[t].pc = "spawned"
    /\ tasks' = [tasks EXCEPT
                   ![t].pc = IF IsNil(listeners, tasks[t].name) THEN "done" ELSE "lock",
                   ![t].snap = Lookup(listeners, tasks[t].name),
                   ![t].gone = Gone]
    /\ nextCycle' = [l \in ListenerIds |->
                       IF /\ l \in returned
                          /\ heap[l].name = tasks[t].name
                          /\ nextCycle[l] = 0
                       THEN t ELSE nextCycle[l]]
    /\ UNCHANGED <<event, err, running, loopPc, shutdownCalls, quitsReceived,
                   listeners, mapWriting, notifyLock, heap, reg, calls,
                   crashed, returned, nextEmit>>

\* Line 142 while line 74 or line 183 is assigning into the same map: the
\* read is unsynchronised, and the runtime may stop the process
\* ("concurrent map read and map write").
NotifyReadFatal(t) ==
    /\ Alive
    /\ t \in DOMAIN tasks
    /\ tasks[t].pc = "spawned"
    /\ mapWriting
    /\ crashed' = "concurrent map read and map write"
    /\ UNCHANGED <<event, err, running, loopPc, shutdownCalls, quitsReceived,
                   listeners, mapWriting, notifyLock, heap, reg, tasks, calls,
                   returned, nextCycle, nextEmit>>

\* Lines 149-152
NotifyLock(t) ==
    /\ Alive
    /\ t \in DOMAIN tasks
    /\ tasks[t].pc = "lock"
    /\ LockIsFree
    /\ notifyLock' = t
    /\ tasks' = [tasks EXCEPT ![t].pc = "loop", ![t].i = 1, ![t].itemsToDelete = FALSE]
    /\ UNCHANGED <<event, err, running, loopPc, shutdownCalls, quitsReceived,
                   listeners, mapWriting, heap, reg, calls, crashed, returned,
                   nextCycle, nextEmit>>

\* Lines 156-158: the counter after the conditional decrement
Decrement(counter) == IF counter > 0 THEN counter - 1 ELSE counter

\* Lines 162-165: whether the listener is marked after its callback was launched
Expired(counter) == counter = 0

\* Line 160: go listener.callback(message.Data...)
Launch(l, cb, args) == [l |-> l, callback |-> cb, args |-> args]

\* the index the range loop of line 155 visits after index i
NextIndex(i) == i + 1

\* Lines 155-166, one iteration of the range loop over the snapshot
NotifyFire(t) ==
    /\ Alive
    /\ t \in DOMAIN tasks
    /\ tasks[t].pc = "loop"
    /\ tasks[t].i <= Len(tasks[t].snap)
    /\ LET l == tasks[t].snap[tasks[t].i]
           c == Decrement(heap[l].counter)
       IN  /\ heap' = [heap EXCEPT ![l].counter = c,
                                   ![l].delete = IF Expired(c) THEN TRUE ELSE @,
                                   ![l].zeroedBy = IF heap[l].counter > 0 /\ c = 0
                                                   THEN t ELSE @]
           /\ calls' = [calls EXCEPT ![t] = Append(@, Launch(l, heap[l].callback, tasks[t].data))]
           /\ tasks' = [tasks EXCEPT ![t].i = NextIndex(@),
                                     ![t].itemsToDelete = IF Expired(c) THEN TRUE ELSE @]
    /\ UNCHANGED <<event, err, running, loopPc, shutdownCalls, quitsReceived,
                   listeners, mapWriting, notifyLock, reg, crashed, returned,
                   nextCycle, nextEmit>>

\* Lines 169-180: with items to delete, the new slice is built from the
\* snapshot and the map assignment of line 183 begins.
NotifyCleanup(t) ==
    /\ Alive
    /\ t \in DOMAIN tasks
    /\ tasks[t].pc = "loop"
    /\ tasks[t].i > Len(tasks[t].snap)
    /\ IF tasks[t].itemsToDelete
       THEN /\ tasks' = [tasks EXCEPT ![t].pc = "store",
                                      ![t].newListeners = KeepUnmarked(tasks[t].snap, heap)]
            /\ mapWriting' = TRUE
       ELSE /\ tasks' = [tasks EXCEPT ![t].pc = "unlock"]
            /\ UNCHANGED mapWriting
    /\ UNCHANGED <<event, err, running, loopPc, shutdownCalls, quitsReceived,
                   listeners, notifyLock, heap, reg, calls, crashed, returned,
                   nextCycle, nextEmit>>

\* Line 183: e.listeners[eventName] = newListeners
NotifyStore(t) ==
    /\ Alive
    /\ t \in DOMAIN tasks
    /\ tasks[t].pc = "store"
    /\ listeners' = MapStore(listeners, tasks[t].name, tasks[t].newListeners)
    /\ mapWriting' = FALSE
    /\ tasks' = [tasks EXCEPT ![t].pc = "unlock"]
    /\ UNCHANGED <<event, err, running, loopPc, shutdownCalls, quitsReceived,
                   notifyLock, heap, reg, calls, crashed, returned, nextCycle,
                   nextEmit>>

\* Line 187
NotifyUnlock(t) ==
    /\ Alive
    /\ t \in DOMAIN tasks
    /\ tasks[t].pc = "unlock"
    /\ notifyLock' = 0
    /\ tasks' = [tasks EXCEPT ![t].pc = "done"]
    /\ UNCHANGED <<event, err, running, loopPc, shutdownCalls, quitsReceived,
                   listeners, mapWriting, heap, reg, calls, crashed, returned,
                   nextCycle, nextEmit>>

\* ------------------------------------------------------------------ Start
\* Lines 83-86: running is set and the run loop goroutine is spun off.
Start ==
    /\ Alive
    /\ loopPc = "notstarted"
    /\ running' = TRUE
    /\ loopPc' = "select"
    /\ UNCHANGED <<event, err, shutdownCalls, quitsReceived, listeners,
                   mapWriting, notifyLock, heap, reg, tasks, calls, crashed,
                   returned, nextCycle, nextEmit>>

\* What lines 93-127 do with a message: a panic (index out of range at line
\* 94, failed type assertion at line 103 or 120), "skip" (logged, or the
\* continue of line 99), "notify" (lines 110 and 114) or "register" (line 123).
Panics == {"index out of range", "interface conversion"}

\* faulty variant: only source j is dispatched, source g stops the run loop
DecodeOnlyJ(m) ==
    LET splitTopic == Split(m.topic)
    IN  IF Len(splitTopic) < 2 THEN "index out of range"
        ELSE IF splitTopic[2] = "emit"
             THEN IF Len(splitTopic) # 4 THEN "skip"
                  ELSE IF m.data.type # "EventMessage" THEN "interface conversion"
                  ELSE IF splitTopic[4] \in {"j"} THEN "notify"
                  ELSE IF splitTopic[4] \in {"g"} THEN "interface conversion"
                  ELSE "skip"
        ELSE IF splitTopic[2] = "on"
             THEN IF m.data.type # "OnEventMessage" THEN "interface conversion"
                  ELSE "register"
        ELSE "skip"

Decode(m) ==
    LET splitTopic == Split(m.topic)
    IN  IF Len(splitTopic) < 2 THEN "index out of range"
        ELSE IF splitTopic[2] = "emit"
             THEN IF Len(splitTopic) # 4 THEN "skip"
                  ELSE IF m.data.type # "EventMessage" THEN "interface conversion"
                  ELSE IF splitTopic[4] \in {"j", "g"} THEN "notify"
                  ELSE "skip"
        ELSE IF splitTopic[2] = "on"
             THEN IF m.data.type # "OnEventMessage" THEN "interface conversion"
                  ELSE "register"
        ELSE "skip"

LoopReady ==
    /\ Alive
    /\ loopPc = "select"
    /\ running

\* faulty variant: the break of line 91 only leaves the select and running stays set
QuitCaseKeepsRunning == [running |-> TRUE, loopPc |-> "select", shutdown |-> 0]

\* Lines 89-91, 87 and 132: what the quit case leaves behind: running is
\* false, so the for loop ends, and shutdown is called once.
QuitCase == [running |-> FALSE, loopPc |-> "exited", shutdown |-> 1]

\* case <-e.quitChannel
RecvQuit ==
    /\ LoopReady
    /\ running' = QuitCase.running
    /\ loopPc' = QuitCase.loopPc
    /\ shutdownCalls' = shutdownCalls + QuitCase.shutdown
    /\ quitsReceived' = quitsReceived + 1
    /\ UNCHANGED <<event, err, listeners, mapWriting, notifyLock, heap, reg,
                   tasks, calls, crashed, returned, nextCycle, nextEmit>>

\* Lines 92-100, 115-117, 125-127: the message is logged and skipped.
RecvSkip(m) ==
    /\ LoopReady
    /\ Decode(m) = "skip"
    /\ UNCHANGED <<event, err, running, loopPc, shutdownCalls, quitsReceived,
                   listeners, mapWriting, notifyLock, heap, reg, tasks, calls,
                   crashed, returned, nextCycle, nextEmit>>

\* Lines 94, 103, 120: the run loop goroutine panics, which ends the process.
RecvPanic(m) ==
    /\ LoopReady
    /\ Decode(m) \in Panics
    /\ crashed' = Decode(m)
    /\ UNCHANGED <<event, err, running, loopPc, shutdownCalls, quitsReceived,
                   listeners, mapWriting, notifyLock, heap, reg, tasks, calls,
                   returned, nextCycle, nextEmit>>

\* Lines 101-114: go e.notifyListeners(eventName, event)
RecvEmit(m) ==
    /\ LoopReady
    /\ Decode(m) = "notify"
    /\ Len(tasks) < MaxTasks
    /\ LET n == m.data.Name
       IN  /\ tasks' = Append(tasks, NewTask(m.data.Name, m.data.Data))
           /\ calls' = Append(calls, <<>>)
           /\ nextEmit' = [l \in ListenerIds |->
                             IF /\ l \in returned
                                /\ heap[l].by = LoopId
                                /\ heap[l].name = n
                                /\ nextEmit[l] = 0
                             THEN Len(tasks) + 1 ELSE nextEmit[l]]
    /\ UNCHANGED <<event, err, running, loopPc, shutdownCalls, quitsReceived,
                   listeners, mapWriting, notifyLock, heap, reg, crashed,
                   returned, nextCycle>>

\* Lines 118-123: e.RegisterListener(eventName, callback), called inline.
RecvOn(m) ==
    /\ LoopReady
    /\ Decode(m) = "register"
    /\ RegisterCall(LoopId, m.data.Name, m.data.Callback)
    /\ loopPc' = "register"
    /\ UNCHANGED <<event, err, running, shutdownCalls, quitsReceived,
                   listeners, mapWriting, notifyLock, tasks, calls, crashed,
                   returned, nextCycle, nextEmit>>

\* ------------------------------------------------------------------ Spec
Next ==
    \/ \E q, e \in BOOLEAN : NewEvent(q, e)
    \/ Start
    \/ RecvQuit
    \/ \E m \in Messages : RecvSkip(m)
    \/ \E m \in Messages : RecvPanic(m)
    \/ \E m \in Messages : RecvEmit(m)
    \/ \E m \in Messages : RecvOn(m)
    \/ \E n \in Names, cb \in Callbacks : AppRegister(n, cb)
    \/ \E c \in Callers : RegisterLock(c)
    \/ \E c \in Callers : RegisterAppend(c)
    \/ \E c \in Callers : RegisterStore(c)
    \/ \E c \in Callers : RegisterUnlock(c)
    \/ \E t \in TaskIds : NotifyRead(t)
    \/ \E t \in TaskIds : NotifyReadFatal(t)
    \/ \E t \in TaskIds : NotifyLock(t)
    \/ \E t \in TaskIds : NotifyFire(t)
    \/ \E t \in TaskIds : NotifyCleanup(t)
    \/ \E t \in TaskIds : NotifyStore(t)
    \/ \E t \in TaskIds : NotifyUnlock(t)

Spec == Init /\ [][Next]_vars

\* ------------------------------------------------------------------ SpecSeeded
\* The registry as in-package code can build it: the Event is constructed and
\* its map already holds listener records whose counter is finite.
\* RegisterListener itself only ever creates records with counter 0.
SeededListener(n, k) ==
    [callback |-> "cb1", counter |-> k, delete |-> FALSE,
     name |-> n, by |-> AppId, zeroedBy |-> 0, order |-> 0]

\* (history) the records of a pre-loaded map were appended in the order of their ids
InOrder(h) == [l \in DOMAIN h |-> [h[l] EXCEPT !.order = l]]

RECURSIVE IdsOf(_, _, _)
IdsOf(h, n, l) ==
    IF l > Len(h) THEN <<>>
    ELSE IF h[l].name = n THEN <<l>> \o IdsOf(h, n, l + 1)
    ELSE IdsOf(h, n, l + 1)

SeededHeaps ==
    UNION { [1..k -> { SeededListener(n, c) : n \in Names, c \in 0..MaxCounter }]
            : k \in 1..MaxListeners }

InitSeeded ==
    /\ event = "ok"
    /\ err = "nil"
    /\ running = FALSE
    /\ loopPc = "notstarted"
    /\ shutdownCalls = 0
    /\ quitsReceived = 0
    /\ heap \in { InOrder(h) : h \in SeededHeaps }
    /\ listeners = [n \in { heap[l].name : l \in DOMAIN heap } |-> IdsOf(heap, n, 1)]
    /\ mapWriting = FALSE
    /\ notifyLock = 0
    /\ reg = [c \in Callers |-> IdleReg]
    /\ tasks = <<>>
    /\ calls = <<>>
    /\ crashed = "no"
    /\ returned = DOMAIN heap
    /\ nextCycle = [l \in ListenerIds |-> 0]
    /\ nextEmit = [l \in ListenerIds |-> 0]

NextSeeded ==
    \/ Start
    \/ RecvQuit
    \/ \E m \in Messages : RecvSkip(m)
    \/ \E m \in Messages : RecvPanic(m)
    \/ \E m \in Messages : RecvEmit(m)
    \/ \E m \in Messages : RecvOn(m)
    \/ \E n \in Names, cb \in Callbacks : AppRegister(n, cb)
    \/ \E c \in Callers : RegisterLock(c)
    \/ \E c \in Callers : RegisterAppend(c)
    \/ \E c \in Callers : RegisterStore(c)
    \/ \E c \in Callers : RegisterUnlock(c)
    \/ \E t \in TaskIds : NotifyRead(t)
    \/ \E t \in TaskIds : NotifyReadFatal(t)
    \/ \E t \in TaskIds : NotifyLock(t)
    \/ \E t \in TaskIds : NotifyFire(t)
    \/ \E t \in TaskIds : NotifyCleanup(t)
    \/ \E t \in TaskIds : NotifyStore(t)
    \/ \E t \in TaskIds : NotifyUnlock(t)

SpecSeeded == InitSeeded /\ [][NextSeeded]_vars

\* ------------------------------------------------------------------ SpecLoaded
\* A started Event whose map holds MaxLoaded records under the event name x,
\* with counters of every kind, while the bus delivers well-formed emit
\* messages only and the embedding code registers further listeners: cycles
\* over sequences long enough for a cleanup to retain several records.
LoadedListener(n, k) ==
    [callback |-> "cb1", counter |-> k, delete |-> FALSE,
     name |-> n, by |-> 0, zeroedBy |-> 0, order |-> 0]

LoadedHeaps == [1..MaxLoaded -> { LoadedListener("x", c) : c \in 0..MaxCounter }]

InitLoaded ==
    /\ event = "ok"
    /\ err = "nil"
    /\ running = TRUE
    /\ loopPc = "select"
    /\ shutdownCalls = 0
    /\ quitsReceived = 0
    /\ heap \in { InOrder(h) : h \in LoadedHeaps }
    /\ listeners = [n \in { heap[l].name : l \in DOMAIN heap } |-> IdsOf(heap, n, 1)]
    /\ mapWriting = FALSE
    /\ notifyLock = 0
    /\ reg = [c \in Callers |-> IdleReg]
    /\ tasks = <<>>
    /\ calls = <<>>
    /\ crashed = "no"
    /\ returned = {}
    /\ nextCycle = [l \in ListenerIds |-> 0]
    /\ nextEmit = [l \in ListenerIds |-> 0]

NextLoaded ==
    \/ \E m \in Messages : RecvEmit(m)
    \/ \E n \in Names, cb \in Callbacks : AppRegister(n, cb)
    \/ \E c \in Callers : RegisterLock(c)
    \/ \E c \in Callers : RegisterAppend(c)
    \/ \E c \in Callers : RegisterStore(c)
    \/ \E c \in Callers : RegisterUnlock(c)
    \/ \E t \in TaskIds : NotifyRead(t)
    \/ \E t \in TaskIds : NotifyReadFatal(t)
    \/ \E t \in TaskIds : NotifyLock(t)
    \/ \E t \in TaskIds : NotifyFire(t)
    \/ \E t \in TaskIds : NotifyCleanup(t)
    \/ \E t \in TaskIds : NotifyStore(t)
    \/ \E t \in TaskIds : NotifyUnlock(t)

SpecLoaded == InitLoaded /\ [][NextLoaded]_vars

\* ------------------------------------------------------------------ claims
\* the launches of listener l among the callback goroutines q of one cycle
LaunchesOf(q, l) == { k \in DOMAIN q : q[k].l = l }
\* listener l was launched exactly once by cycle t, with that cycle's args
LaunchedOnce(t, l) ==
    /\ Cardinality(LaunchesOf(calls[t], l)) = 1
    /\ \A k \in LaunchesOf(calls[t], l) :
         /\ calls[t][k].args = tasks[t].data
         /\ calls[t][k].callback = heap[l].callback
InRegistry(l) == l \in Range(Lookup(listeners, heap[l].name))
EverLaunched(l) == \E t \in DOMAIN calls : LaunchesOf(calls[t], l) # {}

\* C1: once RegisterListener(x, cb) has returned, the next notification
\* cycle for x that starts afterwards launches cb exactly once with its args:
\* when that cycle is over, its launches hold the record once.
C1_NextCycleLaunchesOnce ==
    \A l \in DOMAIN heap :
        (nextCycle[l] # 0 /\ tasks[nextCycle[l]].pc = "done")
            => LaunchedOnce(nextCycle[l], l)

\* C2: a listener registered through RegisterListener never expires: after
\* its registration returned it stays in the sequence of its event name and
\* is never marked for removal.
C2_RegisteredNeverExpires ==
    \A l \in returned : InRegistry(l) /\ ~heap[l].delete

\* C3: a registration is never lost: once RegisterListener returned, the
\* record stays in the sequence of its name until some cycle launched it.
C3_RegistrationNotLost ==
    \A l \in returned : ~EverLaunched(l) => InRegistry(l)

\* C4: within one notification cycle every listener record is launched at
\* most once.
C4_AtMostOncePerCycle ==
    \A t \in DOMAIN calls : \A l \in DOMAIN heap :
        Cardinality(LaunchesOf(calls[t], l)) <= 1

\* C4 witness: two overlapping cycles for the same name have both launched
\* the same two listeners, each of them once per cycle.
C4_Witness ==
    \E t, u \in DOMAIN tasks :
        /\ t # u
        /\ tasks[t].name = tasks[u].name
        /\ tasks[t].pc = "done" /\ tasks[u].pc = "done"
        /\ Len(calls[t]) = 2 /\ Len(calls[u]) = 2
        /\ \A l \in Range(tasks[t].snap) : LaunchesOf(calls[u], l) # {}

\* C5: the cycle whose decrement brings a positive counter to zero removes
\* the record: once that cycle's cleanup is over the record is not in the
\* sequence of its name, and no cycle that reads the map afterwards
\* launches it.
C5_ExpiredIsRemoved ==
    /\ \A l \in Gone : ~InRegistry(l)
    /\ \A t \in DOMAIN tasks : \A l \in tasks[t].gone :
         LaunchesOf(calls[t], l) = {}

\* C5 witness: a record's counter was brought to zero by a cycle that has
\* finished, and a second cycle for the same name, started afterwards, has
\* finished too.
C5_Witness ==
    \E l \in DOMAIN heap, t \in DOMAIN tasks :
        /\ heap[l].zeroedBy # 0
        /\ tasks[heap[l].zeroedBy].pc = "done"
        /\ l \in tasks[t].gone
        /\ tasks[t].name = heap[l].name
        /\ tasks[t].pc = "done"

\* the steps of cycle t
CycleStep(t) ==
    \/ NotifyRead(t) \/ NotifyReadFatal(t) \/ NotifyLock(t) \/ NotifyFire(t)
    \/ NotifyCleanup(t) \/ NotifyStore(t) \/ NotifyUnlock(t)
\* cycle t notifies a name whose sequence is absent or empty
EmptyCycle(t) ==
    /\ t \in DOMAIN tasks
    /\ \/ tasks[t].pc = "spawned" /\ Lookup(listeners, tasks[t].name) = <<>>
       \/ tasks[t].pc \in {"lock", "loop", "store", "unlock"} /\ tasks[t].snap = <<>>

\* C6: Notify for a name whose sequence is absent or empty is a no-op: no
\* step of it launches a callback, changes the registry, stops the run loop
\* or the process, and it returns with the lock free.
C6_EmptyNotifyIsNoOp ==
    [][\A t \in TaskIds :
         (EmptyCycle(t) /\ CycleStep(t)) =>
            /\ calls' = calls
            /\ listeners' = listeners
            /\ running' = running
            /\ loopPc' = loopPc
            /\ crashed' = crashed
            /\ (tasks'[t].pc = "done" => notifyLock' # t)]_vars

\* the messages C7 is about: an operation other than emit and on, an emit
\* topic that has not 4 segments, an emit topic whose source is not j or g
Malformed(m) ==
    LET splitTopic == Split(m.topic)
    IN  /\ Len(splitTopic) >= 2
        /\ \/ splitTopic[2] \notin {"emit", "on"}
           \/ splitTopic[2] = "emit" /\ Len(splitTopic) # 4
           \/ splitTopic[2] = "emit" /\ Len(splitTopic) = 4
                                     /\ splitTopic[4] \notin {"j", "g"}
\* the run loop consumes m
Recv(m) == RecvSkip(m) \/ RecvPanic(m) \/ RecvEmit(m) \/ RecvOn(m)

\* C7: a malformed message is dropped: consuming it registers no listener,
\* spawns no task and leaves the Dispatcher running and able to consume the
\* next message.
C7_MalformedIsDropped ==
    [][\A m \in Messages :
         (Malformed(m) /\ Recv(m)) =>
            /\ heap' = heap
            /\ reg' = reg
            /\ tasks' = tasks
            /\ running' /\ loopPc' = "select"
            /\ crashed' = "no"]_vars

\* C8: end to end: the run loop consumed an on message registering cb for n
\* and later an emit message for n: when the task spawned for that emit is
\* over, it has launched cb exactly once with the emit's data.
C8_OnThenEmitLaunchesOnce ==
    \A l \in DOMAIN heap :
        (heap[l].by = LoopId /\ nextEmit[l] # 0 /\ tasks[nextEmit[l]].pc = "done")
            => LaunchedOnce(nextEmit[l], l)

\* C9: a shutdown signal moves the loop from Running to Stopped and calls
\* shutdown exactly once; Stopped is absorbing and the stopped loop consumes
\* nothing: it spawns no task and registers no listener.
C9_ShutdownStops ==
    /\ [](/\ shutdownCalls <= 1
          /\ (quitsReceived >= 1 <=> loopPc = "exited")
          /\ (loopPc = "exited" <=> shutdownCalls = 1)
          /\ (loopPc = "exited" => ~running))
    /\ [][(loopPc = "exited") =>
                /\ loopPc' = "exited"
                /\ ~running'
                /\ shutdownCalls' = shutdownCalls
                /\ quitsReceived' = quitsReceived
                /\ Len(tasks') = Len(tasks)
                /\ reg'[LoopId] = reg[LoopId]
                /\ \A m \in Messages : ~Recv(m)]_vars

\* C9 witness: the loop has stopped while a notification task it spawned is
\* still in flight.
C9_Witness ==
    /\ loopPc = "exited"
    /\ shutdownCalls = 1
    /\ \E t \in DOMAIN tasks : tasks[t].pc \notin {"done"}

\* C10: when subscribing to "quit" or to "event" fails, NewEvent returns the
\* error and no Event: nothing can be started or registered on it.
C10_FailedConstruction ==
    err # "nil" =>
        /\ event = "nil"
        /\ ~running
        /\ loopPc = "notstarted"
        /\ heap = <<>>
        /\ listeners = <<>>
        /\ tasks = <<>>

\* C10 witness: the subscription to "event" failed after "quit" succeeded.
C10_Witness == err = "event" /\ event = "nil"

\* C11: every read and every write of the registry map is made by the task
\* that holds the lock at that moment: a notification cycle reads its
\* snapshot (line 142) as the lock holder, and RegisterListener reads and
\* writes the map (line 74) as the lock holder, as does the store of line 183.
C11_MapAccessUnderLock ==
    [][/\ \A t \in TaskIds :
            (NotifyRead(t) \/ NotifyReadFatal(t) \/ NotifyStore(t))
                => notifyLock = t
       /\ \A c \in Callers :
            (RegisterAppend(c) \/ RegisterStore(c)) => notifyLock = c]_vars

\* the payload of m is not the record its topic's operation works on
PayloadMismatch(m) ==
    LET splitTopic == Split(m.topic)
    IN  /\ Len(splitTopic) >= 2
        /\ \/ splitTopic[2] = "emit" /\ m.data.type # "EventMessage"
           \/ splitTopic[2] = "on" /\ m.data.type # "OnEventMessage"

\* C12: the run loop stops running only by consuming the shutdown signal, and
\* whatever topic a consumed message carries (a topic of fewer than two
\* segments included) the loop does not crash: it is still running and is
\* back at its select or inside the registration the message asked for.
C12_AnyTopicKeepsLoopRunning ==
    [][/\ (running /\ ~running') => quitsReceived' = quitsReceived + 1
       /\ \A m \in Messages :
            (~PayloadMismatch(m) /\ Recv(m)) =>
                /\ crashed' = "no"
                /\ running'
                /\ loopPc' \in {"select", "register"}]_vars

\* C13: whenever no notification cycle holds the lock, no record the registry
\* holds, under any event name, has its delete flag set.
C13_NoMarkedRecordStored ==
    notifyLock \notin DOMAIN tasks =>
        \A n \in DOMAIN listeners :
            \A l \in Range(listeners[n]) : ~heap[l].delete

\* C13 witness: a cycle has marked a record and stored the rebuilt sequence,
\* no cycle holds the lock, and the registry holds a later record under the
\* same name.
C13_Witness ==
    /\ notifyLock \notin DOMAIN tasks
    /\ \E l, k \in DOMAIN heap :
         /\ heap[l].delete
         /\ ~InRegistry(l)
         /\ heap[k].name = heap[l].name
         /\ InRegistry(k)

\* a RegisterListener call or a notification cycle has begun and is not over
InFlight ==
    \/ \E c \in Callers : reg[c].pc # "idle"
    \/ \E t \in DOMAIN tasks : tasks[t].pc # "done"
\* the next statement of RegisterListener call c
RegisterStep(c) ==
    RegisterLock(c) \/ RegisterAppend(c) \/ RegisterStore(c) \/ RegisterUnlock(c)
\* the next statement of notification cycle t
NotifyStep(t) ==
    \/ NotifyRead(t) \/ NotifyLock(t) \/ NotifyFire(t)
    \/ NotifyCleanup(t) \/ NotifyStore(t) \/ NotifyUnlock(t)

\* C14: no call is ever stuck. Whoever holds the lock can take its next
\* statement without waiting for anything (a callback least of all), up to
\* its unlock; and as long as a RegisterListener call or a notification cycle
\* is unfinished, one of them can take a step, so that under fair scheduling
\* each of them completes.
C14_NoCallIsStuck ==
    /\ \A t \in DOMAIN tasks : notifyLock = t => ENABLED NotifyStep(t)
    /\ \A c \in Callers : notifyLock = c => ENABLED RegisterStep(c)
    /\ InFlight =>
         ENABLED (\/ \E c \in Callers : RegisterStep(c)
                  \/ \E t \in TaskIds : NotifyStep(t))

\* who is between its Lock and its Unlock: a RegisterListener call (lines
\* 72-75) or a cycle's fire-and-cleanup phase (lines 149-187)
InLockedSection ==
    { c \in Callers : reg[c].pc \in {"append", "store", "unlock"} }
    \cup { t \in DOMAIN tasks : tasks[t].pc \in {"loop", "store", "unlock"} }

\* C15: at most one task is inside the locked section, and it is the lock's
\* holder; a record's counter and delete flag change only in a firing step of
\* the cycle that holds the lock, and the registry map changes only in a step
\* of the holder, which keeps the lock over that step.
C15_MutationsUnderLock ==
    /\ [](/\ Cardinality(InLockedSection) <= 1
          /\ \A x \in InLockedSection : notifyLock = x)
    /\ [][/\ \A l \in DOMAIN heap :
               (\/ heap'[l].counter # heap[l].counter
                \/ heap'[l].delete # heap[l].delete)
                  => /\ notifyLock \in DOMAIN tasks
                     /\ NotifyFire(notifyLock)
                     /\ tasks[notifyLock].snap[tasks[notifyLock].i] = l
          /\ listeners' # listeners
               => /\ notifyLock \in InLockedSection
                  /\ notifyLock' = notifyLock
                  /\ \/ notifyLock \in Callers /\ RegisterStore(notifyLock)
                     \/ notifyLock \in DOMAIN tasks /\ NotifyStore(notifyLock)]_vars

\* C15 witness: two cycles for the same name hold the same record in their
\* snapshots; one is inside the locked section and has marked the record, the
\* other waits for the lock.
C15_Witness ==
    \E t, u \in DOMAIN tasks :
        /\ t # u
        /\ tasks[t].name = tasks[u].name
        /\ tasks[t].pc = "loop" /\ tasks[t].i > 1
        /\ tasks[u].pc = "lock"
        /\ \E l \in Range(tasks[t].snap) \cap Range(tasks[u].snap) : heap[l].delete

\* the records of s were appended to the map in the order s lists them
Ordered(s) ==
    /\ \A i \in DOMAIN s : heap[s[i]].order > 0
    /\ \A i, j \in DOMAIN s : i < j => heap[s[i]].order < heap[s[j]].order

\* C16: the sequence of every event name lists its records in registration
\* order (the order in which they were appended to the map), and so do every
\* cycle's snapshot and the sequence its cleanup rebuilds; the k-th callback a
\* cycle launches is that of the k-th record of its snapshot.
C16_RegistrationOrder ==
    /\ \A n \in DOMAIN listeners : Ordered(listeners[n])
    /\ \A t \in DOMAIN tasks :
         /\ Ordered(tasks[t].snap)
         /\ Ordered(tasks[t].newListeners)
         /\ Len(calls[t]) <= Len(tasks[t].snap)
         /\ \A k \in DOMAIN calls[t] : calls[t][k].l = tasks[t].snap[k]

\* C16 witness: a finished cycle launched all pre-loaded records, its cleanup
\* removed one and retained several, and a record registered later stands
\* at the end of a sequence of three.
C16_Witness ==
    \E t \in DOMAIN tasks :
        /\ tasks[t].pc = "done"
        /\ Len(calls[t]) = MaxLoaded
        /\ Len(tasks[t].newListeners) >= 2
        /\ Len(tasks[t].newListeners) < Len(tasks[t].snap)
        /\ \E n \in DOMAIN listeners :
             /\ Len(listeners[n]) >= 3
             /\ heap[listeners[n][Len(listeners[n])]].by = AppId

\* the step leaves the sequence of every event name other than n as it was
OtherNamesUnchanged(n) ==
    /\ DOMAIN listeners' \ {n} = DOMAIN listeners \ {n}
    /\ \A m \in DOMAIN listeners \ {n} : listeners'[m] = listeners[m]
\* the step leaves what the code keeps in every existing record as it was
RecordsUnchanged ==
    \A l \in DOMAIN heap :
        /\ heap'[l].callback = heap[l].callback
        /\ heap'[l].counter = heap[l].counter
        /\ heap'[l].delete = heap[l].delete

\* C17: frame. Of the statements of a RegisterListener(n, cb) call only the
\* map assignment of line 74 changes the map: it puts one record, with
\* counter 0 and not marked, at the end of the sequence for n, and no
\* statement of the call changes an existing record or another name's
\* sequence. Of the statements of a cycle for n only the store of line 183
\* changes the map: it changes the sequence for n alone and puts no record
\* into it that was not there.
C17_Frame ==
    [][/\ \A c \in Callers :
            RegisterStep(c) =>
                /\ RecordsUnchanged
                /\ OtherNamesUnchanged(reg[c].name)
                /\ IF RegisterStore(c)
                   THEN /\ listeners'[reg[c].name]
                             = Append(Lookup(listeners, reg[c].name), reg[c].l)
                        /\ heap'[reg[c].l].counter = 0
                        /\ ~heap'[reg[c].l].delete
                   ELSE listeners' = listeners
       /\ \A t \in DOMAIN tasks :
            NotifyStep(t) =>
                /\ OtherNamesUnchanged(tasks[t].name)
                /\ IF NotifyStore(t)
                   THEN Range(listeners'[tasks[t].name])
                            \subseteq Range(Lookup(listeners, tasks[t].name))
                   ELSE listeners' = listeners
       /\ \A n \in Names, cb \in Callbacks :
            AppRegister(n, cb) =>
                /\ RecordsUnchanged
                /\ listeners' = listeners
                /\ Len(heap') = Len(heap) + 1]_vars

\* C17 witness: a cycle for one name has stored its rebuilt sequence, a
\* registered record stands in that name's sequence, and another name has a
\* sequence with a registered record of its own.
C17_Witness ==
    \E t \in DOMAIN tasks :
        /\ tasks[t].pc = "done"
        /\ tasks[t].itemsToDelete
        /\ tasks[t].name \in DOMAIN listeners
        /\ \E l \in Range(listeners[tasks[t].name]) : heap[l].by = AppId
        /\ \E n \in DOMAIN listeners \ {tasks[t].name} : listeners[n] # <<>>

\* the well-formed emit messages: topic event:emit:<id>:<source> with source
\* j or g, carrying the emit payload (name and data)
WellFormedEmits ==
    [topic : {Topic4("j"), Topic4("g")},
     data : { EventMessage(n, d) : n \in Names, d \in DataValues }]

C19_RemovedNeverLaunched ==
    [][\A t \in DOMAIN tasks :
         NotifyFire(t) =>
            LET l == tasks[t].snap[tasks[t].i]
            IN  ~(heap[l].delete /\ ~InRegistry(l))]_vars

\* C20: the run loop survives a message whose payload is not the record its
\* topic's operation works on (an emit topic with an on payload, an on topic
\* with an emit payload): consuming it is not the end of the process, and the
\* loop is still running, back at its select for the next message.
C20_PayloadMismatchSurvived ==
    [][\A m \in Messages :
         (PayloadMismatch(m) /\ Recv(m)) =>
            /\ crashed' = "no"
            /\ running'
            /\ loopPc' = "select"
            /\ shutdownCalls' = shutdownCalls]_vars

====
